---------------------------- MODULE Spec2Model ----------------------------
(***************************************************************************)
(* A model of the OZX image atlas backend:                                 *)
(*   backend/atlas_core.py      the tile map (check_if_took, took,         *)
(*                              map_height, find_position) and the image   *)
(*                              helpers                                    *)
(*   backend/shadow_matching.py the sprite -> shadow filename matcher      *)
(*   backend/atlas_service.py   AtlasProcessor.process_images              *)
(*   backend/main.py            the /v1/atlas/preview and /export handlers *)
(*                                                                         *)
(* Representation.  A Python str is a sequence of one-character strings.   *)
(* Python's None is the empty tuple; an optional integer n is <<n>>.  A    *)
(* dict is a function on its keys.                                         *)
(***************************************************************************)
EXTENDS Integers, Sequences, FiniteSets, TLC

VARIABLES
    call,         \* the last call made to a pure function: [fn, args, ret]
    tile_map,     \* the dict of atlas_core's tile map: the set of its keys
    width,        \* the width the tile map is used with
    placements,   \* history: the accepted placements, [x, y, w, h], in order
    build,        \* one request to the API and the build it starts
    peer,         \* a second request, handled at the same time
    twin          \* a second tile map with its own calls: [tile_map, placements, call]

vars == <<call, tile_map, width, placements, build, peer, twin>>

None == << >>

NoCall == [fn |-> "none", args |-> << >>, ret |-> None]

\* The second tile map before any call.
IdleTwin == [tile_map |-> {}, placements |-> << >>, call |-> NoCall]

\* The build before any request arrived.  pc is the position of the
\* handler: "idle", "loop" (in the loop of process_images), "done"
\* (answered).  request, params .. i are the request, the AtlasProcessor and
\* the locals of process_images; decoded and placed are history; raised is
\* the exception that left the try block of the handler; status the status
\* code of the answer.  alpha_only is the installed Pillow: whether getbbox
\* on an RGBA image looks at the alpha band only.
IdleBuild ==
    [pc |-> "idle", endpoint |-> "none", alpha_only |-> FALSE,
     request |-> None, params |-> None,
     report |-> [ignored |-> << >>, shadowMissing |-> << >>, shadowAmbiguous |-> << >>],
     shadow_matches |-> << >>, bg_tile |-> FALSE,
     processed_images |-> << >>, tile_map |-> {}, last_image |-> None, i |-> 0,
     decoded |-> << >>, placed |-> << >>,
     raised |-> None, atlas |-> None, preview |-> None, status |-> 0]

Max(S) == CHOOSE m \in S : \A n \in S : n <= m

Min(S) == CHOOSE m \in S : \A n \in S : m <= n

(***************************************************************************)
(* Strings.                                                                *)
(***************************************************************************)

\* The code point of a character (Python compares str by code point).
CodePoint(c) ==
    CASE c = " " -> 32 [] c = "(" -> 40 [] c = ")" -> 41 [] c = "-" -> 45
      [] c = "." -> 46 [] c = "/" -> 47
      [] c = "A" -> 65 [] c = "B" -> 66 [] c = "G" -> 71 [] c = "N" -> 78
      [] c = "P" -> 80
      [] c = "_" -> 95
      [] c = "a" -> 97 [] c = "b" -> 98 [] c = "c" -> 99 [] c = "d" -> 100
      [] c = "g" -> 103 [] c = "h" -> 104 [] c = "n" -> 110 [] c = "o" -> 111
      [] c = "p" -> 112 [] c = "s" -> 115 [] c = "w" -> 119

\* str.lower() on one character.
LowerChar(c) ==
    CASE c = "A" -> "a" [] c = "B" -> "b" [] c = "G" -> "g" [] c = "N" -> "n"
      [] c = "P" -> "p" [] OTHER -> c

\* str.lower()
lower(s) == [i \in 1..Len(s) |-> LowerChar(s[i])]

\* str.replace(old, new) for one-character old and new.
replace(s, old, new) == [i \in 1..Len(s) |-> IF s[i] = old THEN new ELSE s[i]]

\* str.rfind(c) for a one-character c, 1-based; 0 when c does not occur.
rfind(s, c) ==
    LET at == {i \in 1..Len(s) : s[i] = c}
    IN  IF at = {} THEN 0 ELSE Max(at)

\* str.endswith(suffix)
endswith(s, suffix) ==
    /\ Len(suffix) <= Len(s)
    /\ SubSeq(s, Len(s) - Len(suffix) + 1, Len(s)) = suffix

\* a < b for two str: the first differing character decides, a proper
\* prefix is smaller.
StrLess(a, b) ==
    \E k \in 1..(Len(b)) :
        /\ k <= Len(a) + 1
        /\ \A j \in 1..(k - 1) : a[j] = b[j]
        /\ \/ k = Len(a) + 1
           \/ k <= Len(a) /\ CodePoint(a[k]) < CodePoint(b[k])

\* os.path.splitext(p)[0]: the extension starts at the last dot, when that
\* dot is after the last "/" and is not one of the name's leading dots.
splitext_root(p) ==
    LET sepIndex == rfind(p, "/")
        dotIndex == rfind(p, ".")
    IN  IF /\ dotIndex > sepIndex
           /\ \E k \in (sepIndex + 1)..(dotIndex - 1) : p[k] # "."
        THEN SubSeq(p, 1, dotIndex - 1)
        ELSE p

(***************************************************************************)
(* backend/shadow_matching.py                                              *)
(***************************************************************************)

\* normalize_filename turning spaces into dashes after the dashes were unified.
normalize_space_to_dash(filename) ==
    replace(replace(lower(splitext_root(filename)), "-", "_"), " ", "-")

normalize_filename(filename) ==
    replace(replace(lower(splitext_root(filename)), " ", "_"), "-", "_")

SHADOW == <<"s", "h", "a", "d", "o", "w">>

\* The suffixes of strip_shadow_suffix, in the order it tries them.
suffixes ==
    << <<"_", "_">> \o SHADOW, <<"_">> \o SHADOW, <<"-">> \o SHADOW,
       <<"(">> \o SHADOW \o <<")">>, SHADOW >>

\* strip_shadow_suffix taking the last suffix of the list that matches.
strip_last_listed_suffix(filename) ==
    LET hits == {k \in 1..Len(suffixes) : endswith(filename, suffixes[k])}
    IN  IF hits = {} THEN filename
        ELSE SubSeq(filename, 1, Len(filename) - Len(suffixes[Max(hits)]))

strip_shadow_suffix(filename) ==
    LET hits == {k \in 1..Len(suffixes) : endswith(filename, suffixes[k])}
    IN  IF hits = {} THEN filename
        ELSE SubSeq(filename, 1, Len(filename) - Len(suffixes[Min(hits)]))

RECURSIVE build_shadow_map(_)
build_shadow_map(shadow_filenames) ==
    IF shadow_filenames = << >> THEN << >>
    ELSE LET n == Len(shadow_filenames)
             shadow_map == build_shadow_map(SubSeq(shadow_filenames, 1, n - 1))
             shadow_filename == shadow_filenames[n]
             stripped == strip_shadow_suffix(normalize_filename(shadow_filename))
         IN  IF stripped \in DOMAIN shadow_map
             THEN [shadow_map EXCEPT ![stripped] = Append(@, shadow_filename)]
             ELSE shadow_map @@ (stripped :> <<shadow_filename>>)

\* match_shadow_for_sprite taking the first candidate of several as a match.
match_first_candidate(sprite_filename, shadow_map) ==
    LET sprite_key == normalize_filename(sprite_filename)
    IN  IF sprite_key \notin DOMAIN shadow_map THEN <<"missing", << >> >>
        ELSE <<"matched", shadow_map[sprite_key]>>

\* Returns <<status, candidates>>.
match_shadow_for_sprite(sprite_filename, shadow_map) ==
    LET sprite_key == normalize_filename(sprite_filename)
    IN  IF sprite_key \notin DOMAIN shadow_map THEN <<"missing", << >> >>
        ELSE IF Len(shadow_map[sprite_key]) = 1
             THEN <<"matched", shadow_map[sprite_key]>>
             ELSE <<"ambiguous", shadow_map[sprite_key]>>

\* A sort key that leaves the length out.
KeyLessByNameOnly(a, b) == StrLess(a, b)

\* The sort key of resolve_ambiguous_shadow, (len(x), x), compared as
\* Python compares tuples.
KeyLess(a, b) == Len(a) < Len(b) \/ (Len(a) = Len(b) /\ StrLess(a, b))

\* sorted(candidates, key=...): a stable insertion sort.
RECURSIVE sorted(_)
sorted(candidates) ==
    IF candidates = << >> THEN << >>
    ELSE LET n == Len(candidates)
             rest == sorted(SubSeq(candidates, 1, n - 1))
             x == candidates[n]
             \* x goes after every element that is not greater than it
             before == {i \in 1..Len(rest) : ~KeyLess(x, rest[i])}
             at == IF before = {} THEN 0 ELSE Max(before)
         IN  SubSeq(rest, 1, at) \o <<x>> \o SubSeq(rest, at + 1, Len(rest))

resolve_ambiguous_shadow(candidates) ==
    IF candidates = << >> THEN None ELSE sorted(candidates)[1]

\* One iteration of the loop of process_shadow_matching.
MatchOne(results, sprite_filename, shadow_map) ==
    LET m == match_shadow_for_sprite(sprite_filename, shadow_map)
        status == m[1]
        candidates == m[2]
        put(d, v) == [k \in DOMAIN d \cup {sprite_filename} |->
                         IF k = sprite_filename THEN v ELSE d[k]]
    IN  CASE status = "matched" ->
               [results EXCEPT !.matches = put(@, candidates[1])]
          [] status = "missing" ->
               [results EXCEPT !.missing = Append(@, sprite_filename)]
          [] status = "ambiguous" ->
               [results EXCEPT
                   !.ambiguous = put(@, candidates),
                   !.matches = put(@, resolve_ambiguous_shadow(candidates))]

RECURSIVE MatchAll(_, _)
MatchAll(sprite_filenames, shadow_map) ==
    IF sprite_filenames = << >>
    THEN [matches |-> << >>, missing |-> << >>, ambiguous |-> << >>]
    ELSE LET n == Len(sprite_filenames)
         IN  MatchOne(MatchAll(SubSeq(sprite_filenames, 1, n - 1), shadow_map),
                      sprite_filenames[n], shadow_map)

process_shadow_matching(sprite_filenames, shadow_filenames) ==
    MatchAll(sprite_filenames, build_shadow_map(shadow_filenames))

(***************************************************************************)
(* backend/atlas_core.py: the tile map                                     *)
(***************************************************************************)

\* The multiplier of the dict key x * 100 + y.
KeyStride == 100

\* The rows find_position scans: range(1000).
ScanRows == 1000

\* The rows map_height scans: range(1000).
HeightRows == 1000

\* The dict key of cell (x, y).
Key(x, y) == x * KeyStride + y

check_if_took(map_dict, x, y) == Key(x, y) \in map_dict

took(map_dict, x, y) == map_dict \cup {Key(x, y)}

\* Marking that takes the anchor cell only.
MarkOnlyAnchor(x, y, w, h) == {Key(x, y)}

\* Marking that takes the first row of the footprint only.
MarkFirstRow(x, y, w, h) == {Key(x + xoffset, y) : xoffset \in 0..(w - 1)}

\* The keys the marking loops of find_position set for a footprint at (x, y).
MarkedKeys(x, y, w, h) ==
    {Key(x + xoffset, y + yoffset) : xoffset \in 0..(w - 1), yoffset \in 0..(h - 1)}

\* A find_position that answers with the origin whatever is taken.
find_position_origin(map_dict, width_, w, h) == <<0, 0>>

\* The body of the two scan loops of find_position for one (x, y): true
\* when the loops reach the marking step there.
Accepts(map_dict, width_, w, h, x, y) ==
    /\ ~check_if_took(map_dict, x, y)
    /\ ~(w + x > width_)
    /\ \A xoffset \in 0..(w - 1) : \A yoffset \in 0..(h - 1) :
           ~check_if_took(map_dict, x + xoffset, y + yoffset)

RowAccepts(map_dict, width_, w, h, y) ==
    \E x \in 0..(width_ - 1) : Accepts(map_dict, width_, w, h, x, y)

\* The value find_position returns: the first (x, y) in the order of its
\* loops (y outer, x inner) that it accepts, None when the loops end.
find_position_loc(map_dict, width_, w, h) ==
    IF \E y \in 0..(ScanRows - 1) : RowAccepts(map_dict, width_, w, h, y)
    THEN LET y == CHOOSE r \in 0..(ScanRows - 1) :
                      /\ RowAccepts(map_dict, width_, w, h, r)
                      /\ \A q \in 0..(r - 1) : ~RowAccepts(map_dict, width_, w, h, q)
             x == Min({c \in 0..(width_ - 1) : Accepts(map_dict, width_, w, h, c, y)})
         IN  <<x, y>>
    ELSE None

\* The dict after find_position returned loc.
find_position_map(map_dict, w, h, loc) ==
    IF loc = None THEN map_dict
    ELSE map_dict \cup MarkedKeys(loc[1], loc[2], w, h)

\* map_height looking at the first column only.
map_height_first_column(map_dict, width_) ==
    IF \E y \in 0..(HeightRows - 1) : ~check_if_took(map_dict, 0, y)
    THEN <<Min({y \in 0..(HeightRows - 1) : ~check_if_took(map_dict, 0, y)})>>
    ELSE None

\* A row in which map_height finds no taken cell.
RowFree(map_dict, width_, y) ==
    \A x \in 0..(width_ - 1) : ~check_if_took(map_dict, x, y)

\* The value map_height returns: <<y>> for the first free row, None when
\* the loop ends.
map_height(map_dict, width_) ==
    IF \E y \in 0..(HeightRows - 1) : RowFree(map_dict, width_, y)
    THEN <<CHOOSE y \in 0..(HeightRows - 1) :
              /\ RowFree(map_dict, width_, y)
              /\ \A q \in 0..(y - 1) : ~RowFree(map_dict, width_, q)>>
    ELSE None

(***************************************************************************)
(* backend/atlas_core.py: the image helpers.  An image is [size, data]:    *)
(* its size in pixels <<width, height>> and its pixels <<r, g, b, a>>, row *)
(* by row.  An image computed by the filters of PIL, whose pixels the model *)
(* does not compute, is [size, ops, src]: the transforms applied, in       *)
(* order, and the pixels they were applied to.                             *)
(***************************************************************************)

\* The threshold of is_roughly_same.
RoughThreshold == 3

Abs(n) == IF n < 0 THEN -n ELSE n

\* round_half_up(num / den) for num >= 0 and den > 0: int(n + 0.5).
round_half_up(num, den) == (2 * num + den) \div (2 * den)

\* image_equal on two RGBA images: the difference image has no bounding box.
\* Which bands getbbox looks at on an RGBA image depends on the Pillow that
\* is installed (requirements do not pin it): all four, or the alpha band.
image_equal(img1, img2, alpha_only) ==
    /\ img1.size = img2.size
    /\ \A k \in 1..Len(img1.data) :
           IF alpha_only THEN img1.data[k][4] = img2.data[k][4]
           ELSE img1.data[k] = img2.data[k]

is_roughly_same(a, b) ==
    /\ Abs(a[1] - b[1]) <= RoughThreshold
    /\ Abs(a[2] - b[2]) <= RoughThreshold
    /\ Abs(a[3] - b[3]) <= RoughThreshold

\* make_transparent: the pixels it puts back into img (img.putdata).
make_transparent(img, replace_color) ==
    [img EXCEPT !.data = [k \in 1..Len(img.data) |->
                             IF is_roughly_same(replace_color, img.data[k])
                             THEN <<0, 0, 0, 0>>
                             ELSE img.data[k]]]

(***************************************************************************)
(* Exceptions: [type, status_code, text, arg].                             *)
(***************************************************************************)

Exception(type, text, arg) ==
    [type |-> type, status_code |-> 0, text |-> text, arg |-> arg]

ValueError(text, arg) == Exception("ValueError", text, arg)

HTTPException(status_code, text) ==
    [type |-> "HTTPException", status_code |-> status_code, text |-> text, arg |-> << >>]

\* PIL's resize refuses an empty target size.
ResizeError == ValueError("height and width must be > 0", << >>)

\* PIL's Image.open on bytes that are no image.
DecodeError == Exception("UnidentifiedImageError", "cannot identify image file", << >>)

(***************************************************************************)
(* backend/atlas_service.py: AtlasProcessor                                *)
(***************************************************************************)

\* The value of a hexadecimal digit (int(.., 16)); -1 for any other character.
HexDigit(c) ==
    CASE c = "0" -> 0 [] c = "8" -> 8 [] c = "f" -> 15 [] c = "F" -> 15 [] OTHER -> -1

\* parse_remove_color: color_str[i:i+2] for i in (0, 2, 4), after a leading
\* "#" is dropped.  None when int() raises ValueError.
parse_remove_color(color_str) ==
    LET hex == IF Len(color_str) > 0 /\ color_str[1] = "#"
               THEN SubSeq(color_str, 2, Len(color_str)) ELSE color_str
        pair(i) == SubSeq(hex, i + 1, IF i + 2 <= Len(hex) THEN i + 2 ELSE Len(hex))
        bad(i) == pair(i) = << >> \/ \E k \in 1..Len(pair(i)) : HexDigit(pair(i)[k]) < 0
        val(i) == IF Len(pair(i)) = 1 THEN HexDigit(pair(i)[1])
                  ELSE 16 * HexDigit(pair(i)[1]) + HexDigit(pair(i)[2])
    IN  IF bad(0) \/ bad(2) \/ bad(4) THEN None
        ELSE <<val(0), val(2), val(4)>>

\* The transforms with the shadow applied before the colour key and the
\* outline.
transforms_shadow_first(remove, outlined, by_file, by_scale) ==
    (IF by_file THEN <<"add_shadow_file">> ELSE << >>)
    \o (IF by_scale THEN <<"add_shadow_scale">> ELSE << >>)
    \o (IF remove THEN <<"make_transparent">> ELSE << >>)
    \o (IF outlined THEN <<"add_soft_outline">> ELSE << >>)

\* The transforms process_sprite applies before its resize, in the order of
\* its statements: one entry for each branch taken.
transforms(remove, outlined, by_file, by_scale) ==
    (IF remove THEN <<"make_transparent">> ELSE << >>)
    \o (IF outlined THEN <<"add_soft_outline">> ELSE << >>)
    \o (IF by_file THEN <<"add_shadow_file">> ELSE << >>)
    \o (IF by_scale THEN <<"add_shadow_scale">> ELSE << >>)

\* A target size that scales both sides by the multiplier.
new_size_both_sides(tile_size, scale) == <<tile_size * scale, tile_size * scale>>

\* A target size whose height is rounded to half tiles.
new_size_half_tiles(tile_size, scale) ==
    <<tile_size, tile_size * scale + tile_size \div 2>>

\* new_size of process_sprite: the size it resizes the sprite to.
new_size(tile_size, scale) == <<tile_size, tile_size * scale>>

\* process_sprite(img, shadow_img): [raised, img, mutated].  raised is the
\* exception it ends with or None; img the image it returns; mutated the
\* pixels of its ARGUMENT afterwards: make_transparent writes them in place
\* (img.putdata), every other transform builds a new image.
process_sprite(params, img, shadow_img) ==
    LET remove == params.remove_color # None /\ params.remove_color # << >>
        color == IF remove THEN parse_remove_color(params.remove_color) ELSE None
        keyed == IF remove /\ color # None THEN make_transparent(img, color) ELSE img
        outlined == params.outline > 0
        by_file == params.use_shadow_images /\ shadow_img # None
        by_scale == ~by_file /\ params.shadow_scale > 0
        \* add_shadow_scale resizes the alpha mask to int(size * shadow_scale)
        mask_size == <<keyed.size[1] * params.shadow_scale,
                       keyed.size[2] * params.shadow_scale>>
        ops == transforms(remove, outlined, by_file, by_scale)
        scale == round_half_up(keyed.size[2], keyed.size[1])
        size == new_size(params.tile_size, scale)
    IN  IF remove /\ color = None
        THEN [raised |-> ValueError("invalid literal for int() with base 16", << >>),
              img |-> None, mutated |-> img]
        ELSE IF by_scale /\ (mask_size[1] < 1 \/ mask_size[2] < 1)
        THEN [raised |-> ResizeError, img |-> None, mutated |-> keyed]
        ELSE IF size[1] < 1 \/ size[2] < 1
        THEN [raised |-> ResizeError, img |-> None, mutated |-> keyed]
        ELSE [raised |-> None,
              img |-> [size |-> size, ops |-> Append(ops, "resize"),
                       src |-> keyed.data],
              mutated |-> keyed]

\* self.report of a new AtlasProcessor.
EmptyReport == [ignored |-> << >>, shadowMissing |-> << >>, shadowAmbiguous |-> << >>]

\* An entry of report["ignored"].  The reason string is kind, followed for a
\* processing error by ": " and str(e), which is text and arg.
Ignored(name, kind) ==
    [name |-> name, reason |-> [kind |-> kind, text |-> "", arg |-> << >>]]

IgnoredError(name, e) ==
    [name |-> name, reason |-> [kind |-> "processing error", text |-> e.text, arg |-> e.arg]]

\* d[k] = v on a dict.
DictPut(d, k, v) == [j \in DOMAIN d \cup {k} |-> IF j = k THEN v ELSE d[j]]

\* The keys of a dict from last inserted to first.
dict_keys_reversed(d, inserted) ==
    LET first == {k \in 1..Len(inserted) :
                     /\ inserted[k] \in DOMAIN d
                     /\ \A j \in 1..(k - 1) : inserted[j] # inserted[k]}
        nth(n) == CHOOSE k \in first : Cardinality({j \in first : j >= k}) = n
    IN  [n \in 1..Cardinality(first) |-> inserted[nth(n)]]

\* The keys of the dict d in the order .items() yields them, the order of
\* their first insertion; inserted is the sequence of keys the code tried to
\* insert.
dict_keys(d, inserted) ==
    LET first == {k \in 1..Len(inserted) :
                     /\ inserted[k] \in DOMAIN d
                     /\ \A j \in 1..(k - 1) : inserted[j] # inserted[k]}
        nth(n) == CHOOSE k \in first : Cardinality({j \in first : j <= k}) = n
    IN  [n \in 1..Cardinality(first) |-> inserted[nth(n)]]

\* The start of process_images, up to the loop: the shadow matching and the
\* locals.  b is the state of one build: the request, the processor
\* (params, report) and the locals of process_images.
process_images_begin(b, params, report) ==
    LET image_names == [k \in 1..Len(b.request.images) |-> b.request.images[k].name]
        shadow_names == b.request.shadow_names
        matching == params.use_shadow_images /\ shadow_names # None /\ shadow_names # << >>
        result == process_shadow_matching(image_names, shadow_names)
    IN  [b EXCEPT
            !.pc = "loop",
            !.params = params,
            !.shadow_matches = IF matching THEN result.matches ELSE << >>,
            !.report = IF matching
                       THEN [report EXCEPT
                                !.shadowMissing = result.missing,
                                !.shadowAmbiguous =
                                    LET amb == dict_keys(result.ambiguous, image_names)
                                    IN  [k \in 1..Len(amb) |->
                                            [sprite |-> amb[k],
                                             candidates |-> result.ambiguous[amb[k]]]]]
                       ELSE report,
            !.bg_tile = params.use_background /\ b.request.background,
            !.processed_images = << >>,
            !.tile_map = {},
            !.last_image = None,
            !.i = 0]

\* The loop leaves at the first ignored sprite instead of going on.
append_ignored_and_break(c, item) ==
    [c EXCEPT !.report.ignored = Append(@, item), !.i = Len(c.request.images)]

\* self.report["ignored"].append(item), followed by continue.
append_ignored(c, item) == [c EXCEPT !.report.ignored = Append(@, item)]

\* The duplicate reference left as it was.
keep_last_image(c, img) == c

\* last_image = img, after the duplicate test and before the shadow policy.
set_last_image(c, img) == [c EXCEPT !.last_image = img]

\* The body of the loop of process_images for the sprite at index b.i.
process_images_step(b) ==
    LET params == b.params
        entry == b.request.images[b.i + 1]
        image_name == entry.name
        next == [b EXCEPT !.i = b.i + 1]
        ignore(c, item) == append_ignored(c, item)
    IN  IF params.sample > 1 /\ b.i % params.sample # 0
        THEN next
        ELSE IF ~entry.file.ok
        THEN \* Image.open raises: the except clause of the loop
             ignore(next, IgnoredError(image_name, DecodeError))
        ELSE
        LET img == entry.file.img
            seen == [next EXCEPT !.decoded = Append(@, [name |-> image_name, img |-> img])]
        IN  IF b.last_image # None /\ image_equal(b.last_image, img, b.alpha_only)
            THEN ignore(seen, Ignored(image_name, "duplicate"))
            ELSE
            LET kept == set_last_image(seen, img)
                has_shadow == image_name \in DOMAIN b.shadow_matches
                shadow_img == IF params.use_shadow_images /\ has_shadow
                              THEN b.shadow_matches[image_name] ELSE None
            IN  IF params.use_shadow_images /\ ~has_shadow
                   /\ params.missing_shadow_policy = "ignoreSprite"
                THEN ignore(kept, Ignored(image_name, "missing shadow"))
                ELSE IF params.use_shadow_images /\ ~has_shadow
                        /\ params.missing_shadow_policy = "fail"
                THEN \* raise ValueError inside the try: the except clause
                     \* of the loop catches it
                     ignore(kept, IgnoredError(image_name,
                                      ValueError("Missing shadow for", image_name)))
                ELSE
                LET r == process_sprite(params, img, shadow_img)
                    \* last_image is the object process_sprite was given
                    done == [kept EXCEPT !.last_image = r.mutated]
                    w == r.img.size[1] \div params.tile_size
                    h == r.img.size[2] \div params.tile_size
                    out == IF b.bg_tile
                           THEN [r.img EXCEPT !.ops = Append(@, "background")]
                           ELSE r.img
                    loc == find_position_loc(b.tile_map, params.width, w, h)
                IN  IF r.raised # None
                    THEN ignore(done, IgnoredError(image_name, r.raised))
                    ELSE IF r.img.size[1] % params.tile_size # 0
                            \/ r.img.size[2] % params.tile_size # 0
                    THEN ignore(done, Ignored(image_name, "size alignment"))
                    ELSE IF w > params.width
                    THEN ignore(done, Ignored(image_name, "too wide"))
                    ELSE [done EXCEPT
                             !.tile_map = find_position_map(@, w, h, loc),
                             !.processed_images = DictPut(@, loc, out),
                             !.placed = Append(@, [name |-> image_name, loc |-> loc,
                                                   w |-> w, h |-> h])]

\* process_images_end without the check for an empty processed_images.
process_images_end_unchecked(b) ==
    LET atlas_height == map_height(b.tile_map, b.params.width)
    IN  [raised |-> None,
         atlas |-> [size |-> <<b.params.tile_size * b.params.width,
                               b.params.tile_size * atlas_height[1]>>]]

\* The end of process_images, after the loop: [raised, atlas].
process_images_end(b) ==
    LET atlas_height == map_height(b.tile_map, b.params.width)
    IN  IF DOMAIN b.processed_images = {}
        THEN [raised |-> ValueError("No images to process", << >>), atlas |-> None]
        ELSE IF atlas_height = None
        THEN [raised |-> Exception("TypeError",
                             "unsupported operand type(s) for *: 'int' and 'NoneType'", << >>),
              atlas |-> None]
        ELSE IF None \in DOMAIN b.processed_images
        THEN [raised |-> Exception("TypeError", "'NoneType' object is not subscriptable", << >>),
              atlas |-> None]
        ELSE [raised |-> None,
              atlas |-> [size |-> <<b.params.tile_size * b.params.width,
                                    b.params.tile_size * atlas_height[1]>>]]

(***************************************************************************)
(* Python floats (IEEE 754 binary64) as far as create_preview needs them:  *)
(* a positive float is [m, e], m its 53 significant bits from the highest  *)
(* to the lowest, its value m * 2^e.  Every step rounds to nearest, ties   *)
(* to even.                                                                *)
(***************************************************************************)

\* The significant bits of a float.
MantissaBits == 53

\* n in binary on len bits, the highest first.
FixedBits(n, len) == [k \in 1..len |-> (n \div 2 ^ (len - k)) % 2]

\* n in binary without leading zeros, n < 2^30.
ToBits(n) ==
    FixedBits(n, CHOOSE len \in 0..30 : n < 2 ^ len /\ (len = 0 \/ n >= 2 ^ (len - 1)))

RECURSIVE FromBits(_)
FromBits(bits) ==
    IF bits = << >> THEN 0
    ELSE 2 * FromBits(SubSeq(bits, 1, Len(bits) - 1)) + bits[Len(bits)]

\* bits + 1
IncBits(bits) ==
    LET zeros == {k \in 1..Len(bits) : bits[k] = 0}
        last == CHOOSE k \in zeros : \A j \in zeros : j <= k
    IN  IF zeros = {}
        THEN <<1>> \o [k \in 1..Len(bits) |-> 0]
        ELSE [k \in 1..Len(bits) |-> IF k < last THEN bits[k] ELSE IF k = last THEN 1 ELSE 0]

\* The float nearest to bits * 2^e, bits starting with a 1; sticky says
\* that the exact value is above bits * 2^e by less than 2^e.
RoundFloat(bits, e, sticky) ==
    LET L == Len(bits)
        kept == SubSeq(bits, 1, MantissaBits)
        rest == SubSeq(bits, MantissaBits + 2, L)
        up == /\ bits[MantissaBits + 1] = 1
              /\ \/ sticky
                 \/ \E k \in 1..Len(rest) : rest[k] = 1
                 \/ kept[MantissaBits] = 1
        m == IF up THEN IncBits(kept) ELSE kept
    IN  IF L <= MantissaBits
        THEN [m |-> bits \o [k \in 1..(MantissaBits - L) |-> 0], e |-> e - (MantissaBits - L)]
        ELSE IF Len(m) > MantissaBits
        THEN [m |-> SubSeq(m, 1, MantissaBits), e |-> e + (L - MantissaBits) + 1]
        ELSE [m |-> m, e |-> e + (L - MantissaBits)]

\* 2^k modulo w, k <= 3 * PowerBits and w < 2^15: the product of at most
\* three powers below 2^PowerBits, each product within the integers.
PowerMod(k, w) ==
    LET PowerBits == 24
        a == IF k < PowerBits THEN k ELSE PowerBits
        b == IF k - a < PowerBits THEN k - a ELSE PowerBits
    IN  ((((2 ^ a % w) * (2 ^ b % w)) % w) * (2 ^ (k - a - b) % w)) % w

\* The remainder of the long division p / w after k bits behind the point.
DivRemainder(p, w, k) == ((p % w) * PowerMod(k, w)) % w

\* The k-th bit of p / w behind the binary point, k >= 1.
DivBit(p, w, k) == IF 2 * DivRemainder(p, w, k - 1) >= w THEN 1 ELSE 0

\* p / w on ints, 0 < p and 0 < w < 2^WidthBits: the float of the true
\* division, rounded from the bits of the quotient from its first 1 on, one
\* more than a mantissa holds.
FloatDiv(p, w) ==
    LET WidthBits == 15
        whole == ToBits(p \div w)
        first == CHOOSE k \in 1..WidthBits :
                    DivBit(p, w, k) = 1 /\ \A j \in 1..(k - 1) : DivBit(p, w, j) = 0
        nfrac == IF whole = << >> THEN first + MantissaBits
                 ELSE MantissaBits + 1 - Len(whole)
        bits == IF whole = << >>
                THEN [k \in 1..(MantissaBits + 1) |-> DivBit(p, w, first + k - 1)]
                ELSE whole \o [k \in 1..nfrac |-> DivBit(p, w, k)]
    IN  RoundFloat(bits, 0 - nfrac, DivRemainder(p, w, nfrac) # 0)

\* bits * h, bits a mantissa and h an int, 0 < h < 2^19: limb by limb from
\* the lowest, each product with the carry of the one below, the five limbs
\* of LimbBits bits so that a product stays within the integers.
MulBits(bits, h) ==
    LET LimbBits == 11
        limb(i) == FromBits(SubSeq(bits,
                                   IF i = 5 THEN 1 ELSE MantissaBits - LimbBits * i + 1,
                                   MantissaBits - LimbBits * (i - 1)))
        t1 == limb(1) * h
        t2 == limb(2) * h + t1 \div 2 ^ LimbBits
        t3 == limb(3) * h + t2 \div 2 ^ LimbBits
        t4 == limb(4) * h + t3 \div 2 ^ LimbBits
        t5 == limb(5) * h + t4 \div 2 ^ LimbBits
    IN  ToBits(t5) \o FixedBits(t4 % 2 ^ LimbBits, LimbBits)
                   \o FixedBits(t3 % 2 ^ LimbBits, LimbBits)
                   \o FixedBits(t2 % 2 ^ LimbBits, LimbBits)
                   \o FixedBits(t1 % 2 ^ LimbBits, LimbBits)

\* h * q, h a positive int converted to float, q a float.
FloatMul(h, q) == RoundFloat(MulBits(q.m, h), q.e, FALSE)

\* int(q): the float q without its fraction.
FloatToInt(q) ==
    IF q.e >= 0 THEN FromBits(q.m) * 2 ^ q.e
    ELSE IF MantissaBits + q.e <= 0 THEN 0
    ELSE FromBits(SubSeq(q.m, 1, MantissaBits + q.e))

\* new_height of create_preview: int(height * (preview_max_width / width)).
new_height(preview_max_width, atlas_width, atlas_height) ==
    IF preview_max_width = 0 THEN 0
    ELSE IF preview_max_width < 0
    THEN 0 - FloatToInt(FloatMul(atlas_height, FloatDiv(0 - preview_max_width, atlas_width)))
    ELSE FloatToInt(FloatMul(atlas_height, FloatDiv(preview_max_width, atlas_width)))

\* create_preview(atlas): the size of the image it returns.
create_preview(params, atlas) ==
    IF atlas.size[1] <= params.preview_max_width
    THEN atlas
    ELSE [size |-> <<params.preview_max_width,
                     new_height(params.preview_max_width, atlas.size[1], atlas.size[2])>>]

\* create_preview(atlas): the exception of its resize, or None.
create_preview_raises(params, atlas) ==
    IF create_preview(params, atlas).size[1] < 1 \/ create_preview(params, atlas).size[2] < 1
    THEN ResizeError ELSE None

(***************************************************************************)
(* backend/main.py                                                         *)
(***************************************************************************)

\* The limit of validate_files on the number of images.
MaxImages == 300

\* validate_params(params_json): the HTTPException it raises, or None.
\* params_json is [json, tileSize, width, ...]: json says whether the text
\* parses, the other fields are the values of the parsed object.
validate_params_raises(params_json) ==
    IF ~params_json.json
    THEN HTTPException(400, "Invalid JSON in params")
    ELSE IF params_json.tileSize <= 0 \/ params_json.tileSize > 512
    THEN HTTPException(400, "tileSize must be between 1 and 512")
    ELSE IF params_json.width <= 0 \/ params_json.width > 20
    THEN HTTPException(400, "width must be between 1 and 20")
    ELSE IF params_json.sample <= 0
    THEN HTTPException(400, "sample must be positive")
    ELSE IF params_json.outline < 0 \/ params_json.outline > 50
    THEN HTTPException(400, "outline must be between 0 and 50")
    ELSE IF params_json.shadowScale < 0 \/ params_json.shadowScale > 5
    THEN HTTPException(400, "shadowScale must be between 0 and 5")
    ELSE IF params_json.missingShadowPolicy \notin {"skipShadow", "ignoreSprite", "fail"}
    THEN HTTPException(400, "Invalid missingShadowPolicy")
    ELSE None

\* validate_params(params_json): the AtlasParams it returns.
validate_params(params_json) ==
    [tile_size |-> params_json.tileSize,
     width |-> params_json.width,
     sample |-> params_json.sample,
     outline |-> params_json.outline,
     remove_color |-> params_json.removeColor,
     shadow_scale |-> params_json.shadowScale,
     use_shadow_images |-> params_json.useShadowImages,
     missing_shadow_policy |-> params_json.missingShadowPolicy,
     use_background |-> params_json.useBackground,
     preview_max_width |-> params_json.previewMaxWidth]

\* validate_files(images): the HTTPException it raises, or None.  (The
\* uploads of the model are far below the limit on the total size.)
validate_files_raises(images) ==
    IF Len(images) = 0
    THEN HTTPException(400, "No images provided")
    ELSE IF Len(images) > MaxImages
    THEN HTTPException(400, "Too many images (max 300)")
    ELSE IF \E k \in 1..Len(images) :
               /\ images[k].name # << >>
               /\ \/ Len(images[k].content_type) < 6
                  \/ SubSeq(images[k].content_type, 1, 6) # <<"i", "m", "a", "g", "e", "/">>
    THEN HTTPException(400, "File is not an image")
    ELSE None

\* The except clauses of preview_atlas and export_atlas: the status of the
\* HTTPException they raise for an exception e of the try block.
HandlerStatus(e) == IF e.type = "ValueError" THEN 400 ELSE 500

\* e leaves the try block of the handler.
handler_raise(b, e) ==
    [b EXCEPT !.pc = "done", !.raised = e, !.status = HandlerStatus(e)]

\* float('inf'), the preview_max_width of export_atlas: above every width.
Infinity == 1000000

\* preview_atlas and export_atlas from the request to the loop of
\* process_images.
handler_begin(b, endpoint, request) ==
    LET arrived == [b EXCEPT !.endpoint = endpoint, !.request = request]
        parsed == validate_params(request.params_json)
        atlas_params == IF endpoint = "export"
                        THEN [parsed EXCEPT !.preview_max_width = Infinity]
                        ELSE parsed
    IN  IF validate_params_raises(request.params_json) # None
        THEN handler_raise(arrived, validate_params_raises(request.params_json))
        ELSE IF validate_files_raises(request.images) # None
        THEN handler_raise(arrived, validate_files_raises(request.images))
        ELSE process_images_begin(arrived, atlas_params, EmptyReport)

\* preview_atlas and export_atlas from the end of the loop of
\* process_images to the answer.
handler_end(b) ==
    LET r == process_images_end(b)
    IN  IF r.raised # None
        THEN handler_raise(b, r.raised)
        ELSE IF b.endpoint = "preview" /\ create_preview_raises(b.params, r.atlas) # None
        THEN handler_raise([b EXCEPT !.atlas = r.atlas],
                           create_preview_raises(b.params, r.atlas))
        ELSE [b EXCEPT !.pc = "done",
                       !.atlas = r.atlas,
                       !.preview = IF b.endpoint = "preview"
                                   THEN create_preview(b.params, r.atlas) ELSE None,
                       !.status = 200]

(***************************************************************************)
(* The tile map under a sequence of calls.                                 *)
(***************************************************************************)

\* Bounds of the tile map's specification.
MaxWidth == 2
MaxRequests == 2
MaxSmallHeight == 2

\* The heights requested: small ones, and the two the constants of the
\* code make special.
Heights == (1..MaxSmallHeight) \cup {KeyStride, ScanRows}

InitGrid ==
    /\ call = NoCall
    /\ tile_map = {}
    /\ width \in 1..MaxWidth
    /\ placements = << >>
    /\ twin = IdleTwin
    /\ build = IdleBuild
    /\ peer = IdleBuild

\* find_position(tile_map, width, w, h)
FindPosition ==
    /\ Len(placements) < MaxRequests
    /\ \E w \in 1..width, h \in Heights :
        \E loc \in {find_position_loc(tile_map, width, w, h)} :
            /\ tile_map' = find_position_map(tile_map, w, h, loc)
            /\ call' = [fn |-> "find_position", args |-> <<width, w, h>>, ret |-> loc]
            /\ placements' = IF loc = None THEN placements
                             ELSE Append(placements,
                                         [x |-> loc[1], y |-> loc[2], w |-> w, h |-> h])
            /\ UNCHANGED <<width, build, peer, twin>>

\* map_height(tile_map, width)
MapHeight ==
    /\ call' = [fn |-> "map_height", args |-> <<width>>,
                ret |-> map_height(tile_map, width)]
    /\ UNCHANGED <<tile_map, width, placements, build, peer, twin>>

NextGrid == FindPosition \/ MapHeight

SpecGrid == InitGrid /\ [][NextGrid]_vars

(***************************************************************************)
(* Two tile maps of one width, each under its own sequence of calls.       *)
(***************************************************************************)

\* Bound of this specification: the calls made on each tile map.
MaxPairCalls == 3

PairWidths == {1, 2}
PairHeights == {1, 2}

InitPair ==
    /\ call = NoCall
    /\ tile_map = {}
    /\ width \in PairWidths
    /\ placements = << >>
    /\ twin = IdleTwin
    /\ build = IdleBuild
    /\ peer = IdleBuild

\* find_position(tile_map, width, w, h) on the first tile map
PairFindPosition ==
    /\ Len(placements) < MaxPairCalls
    /\ \E w \in 1..width, h \in PairHeights :
        \E loc \in {find_position_loc(tile_map, width, w, h)} :
            /\ tile_map' = find_position_map(tile_map, w, h, loc)
            /\ call' = [fn |-> "find_position", args |-> <<tile_map, width, w, h>>,
                        ret |-> loc]
            /\ placements' = IF loc = None THEN placements
                             ELSE Append(placements,
                                         [x |-> loc[1], y |-> loc[2], w |-> w, h |-> h])
            /\ UNCHANGED <<width, build, peer, twin>>

\* find_position(tile_map, width, w, h) on the second tile map
TwinFindPosition ==
    /\ Len(twin.placements) < MaxPairCalls
    /\ \E w \in 1..width, h \in PairHeights :
        \E loc \in {find_position_loc(twin.tile_map, width, w, h)} :
            /\ twin' = [tile_map |-> find_position_map(twin.tile_map, w, h, loc),
                        call |-> [fn |-> "find_position",
                                  args |-> <<twin.tile_map, width, w, h>>, ret |-> loc],
                        placements |-> IF loc = None THEN twin.placements
                                       ELSE Append(twin.placements,
                                                [x |-> loc[1], y |-> loc[2],
                                                 w |-> w, h |-> h])]
            /\ UNCHANGED <<call, tile_map, width, placements, build, peer>>

NextPair == PairFindPosition \/ TwinFindPosition

SpecPair == InitPair /\ [][NextPair]_vars

(***************************************************************************)
(* The filename functions under calls with bounded arguments.              *)
(***************************************************************************)

\* Bounds of the filename functions' specification.
MaxNameLen == 4
MaxSpriteNames == 2
MaxShadowNames == 3
MaxCandidates == 3

Range(seq) == {seq[i] : i \in 1..Len(seq)}

\* The sequences over S of a length in lo..hi.
SeqsOf(S, lo, hi) == UNION {[1..n -> S] : n \in lo..hi}

\* The characters of the filenames given to normalize_filename.
NameChars == {"a", "B", ".", "-", " ", "_", "/"}

PNG == <<".", "p", "n", "g">>

\* The content types "image/png" and "text/plain".
ImagePng == <<"i", "m", "a", "g", "e", "/", "p", "n", "g">>
TextPlain == <<"t", "e", "x", "t", "/", "p", "l", "a", "i", "n">>

\* Sprite filenames: "a.png", "A b.PNG", "b.png".
SpritePool ==
    { <<"a">> \o PNG,
      <<"A", " ", "b", ".", "P", "N", "G">>,
      <<"b">> \o PNG }

\* Shadow filenames: "a_shadow.png", "a__shadow.png", "A-shadow.png",
\* "a(shadow).png", "a-b_shadow.png", "b.png".
ShadowPool ==
    { <<"a", "_">> \o SHADOW \o PNG,
      <<"a", "_", "_">> \o SHADOW \o PNG,
      <<"A", "-">> \o SHADOW \o PNG,
      <<"a", "(">> \o SHADOW \o <<")">> \o PNG,
      <<"a", "-", "b", "_">> \o SHADOW \o PNG,
      <<"b">> \o PNG }

\* The names given to strip_shadow_suffix: a stem followed by up to
\* MaxMarkers pieces, each a shadow marker, a part of one, or nothing.
MaxMarkers == 2

StemPool == {<< >>, <<"a">>, <<"a", "_">>}

MarkerPool ==
    { << >>, <<"b">>, <<"_", "_">> \o SHADOW, <<"_">> \o SHADOW, <<"-">> \o SHADOW,
      <<"(">> \o SHADOW \o <<")">>, SHADOW, <<"(">> \o SHADOW }

RECURSIVE Concat(_)
Concat(pieces) ==
    IF pieces = << >> THEN << >> ELSE Head(pieces) \o Concat(Tail(pieces))

StripPool == {stem \o Concat(pieces) : stem \in StemPool,
                                       pieces \in SeqsOf(MarkerPool, 0, MaxMarkers)}

\* Each behaviour makes one call, from the state where none was made.
InitMatch ==
    /\ call = NoCall
    /\ tile_map = {}
    /\ width = 1
    /\ placements = << >>
    /\ twin = IdleTwin
    /\ build = IdleBuild
    /\ peer = IdleBuild

\* normalize_filename(filename)
NormalizeFilename ==
    /\ call = NoCall
    /\ \E filename \in SeqsOf(NameChars, 0, MaxNameLen) :
        /\ call' = [fn |-> "normalize_filename", args |-> <<filename>>,
                    ret |-> normalize_filename(filename)]
        /\ UNCHANGED <<tile_map, width, placements, build, peer, twin>>

\* strip_shadow_suffix(filename)
StripShadowSuffix ==
    /\ call = NoCall
    /\ \E filename \in StripPool :
        /\ call' = [fn |-> "strip_shadow_suffix", args |-> <<filename>>,
                    ret |-> strip_shadow_suffix(filename)]
        /\ UNCHANGED <<tile_map, width, placements, build, peer, twin>>

\* resolve_ambiguous_shadow(candidates)
ResolveAmbiguousShadow ==
    /\ call = NoCall
    /\ \E candidates \in SeqsOf(ShadowPool, 0, MaxCandidates) :
        /\ call' = [fn |-> "resolve_ambiguous_shadow", args |-> <<candidates>>,
                    ret |-> resolve_ambiguous_shadow(candidates)]
        /\ UNCHANGED <<tile_map, width, placements, build, peer, twin>>

\* process_shadow_matching(sprite_filenames, shadow_filenames)
ProcessShadowMatching ==
    /\ call = NoCall
    /\ \E sprite_filenames \in SeqsOf(SpritePool, 0, MaxSpriteNames),
          shadow_filenames \in SeqsOf(ShadowPool, 0, MaxShadowNames) :
        /\ call' = [fn |-> "process_shadow_matching",
                    args |-> <<sprite_filenames, shadow_filenames>>,
                    ret |-> process_shadow_matching(sprite_filenames, shadow_filenames)]
        /\ UNCHANGED <<tile_map, width, placements, build, peer, twin>>

NextMatch ==
    NormalizeFilename \/ StripShadowSuffix \/ ResolveAmbiguousShadow \/ ProcessShadowMatching

SpecMatch == InitMatch /\ [][NextMatch]_vars

(***************************************************************************)
(* create_preview under one call: the cap and the atlas of the call are    *)
(* its input.                                                              *)
(***************************************************************************)

\* Bounds of the preview's specification: the sides of an atlas in pixels
\* and the preview_max_width.
MaxAtlasSide == 23
MaxPreviewWidth == 16

InitPreview ==
    /\ call = NoCall
    /\ tile_map = {}
    /\ width = 1
    /\ placements = << >>
    /\ build = IdleBuild
    /\ peer = IdleBuild
    /\ twin = IdleTwin

\* create_preview(atlas) of a processor with the given preview_max_width:
\* ret is the image returned, raised the exception of the resize or None.
CreatePreview ==
    /\ call = NoCall
    /\ \E preview_max_width \in 1..MaxPreviewWidth,
          w \in 1..MaxAtlasSide, h \in 1..MaxAtlasSide :
        LET params == [preview_max_width |-> preview_max_width]
            atlas == [size |-> <<w, h>>]
        IN  /\ call' = [fn |-> "create_preview", args |-> <<params, atlas>>,
                        raised |-> create_preview_raises(params, atlas),
                        ret |-> IF create_preview_raises(params, atlas) = None
                                THEN create_preview(params, atlas) ELSE None]
            /\ UNCHANGED <<tile_map, width, placements, build, peer, twin>>

NextPreview == CreatePreview

SpecPreview == InitPreview /\ [][NextPreview]_vars

(***************************************************************************)
(* The API under one request.                                              *)
(***************************************************************************)

\* Bounds of the API's specification: the sprites of a request, the sample
\* strides.  The widths are 1..MaxWidth.
MaxSprites == 3
MaxSample == 2

\* RGBA pixels.
White == <<255, 255, 255, 255>>
Red == <<255, 0, 0, 255>>

\* Uploaded files: [ok, img].  ok: Image.open can read it; img: the RGBA
\* image it decodes to.
FileOf(size, data) == [ok |-> TRUE, img |-> [size |-> size, data |-> data]]

FileWhite == FileOf(<<1, 1>>, <<White>>)
FileRed == FileOf(<<1, 1>>, <<Red>>)
FileTall == FileOf(<<1, 2>>, <<Red, White>>)
FileWide == FileOf(<<3, 1>>, <<Red, Red, Red>>)
FileBlock == FileOf(<<3, 2>>, <<Red, Red, Red, Red, Red, Red>>)
FileCorrupt == [ok |-> FALSE, img |-> [size |-> <<0, 0>>, data |-> << >>]]

FilePool == {FileWhite, FileRed, FileTall, FileWide, FileBlock, FileCorrupt}

\* Two sprites of one pixel's width whose heights are the constants of the
\* tile map: KeyStride and ScanRows tiles tall at tile size 1.
FileTower == FileOf(<<1, KeyStride>>, [k \in 1..KeyStride |-> Red])
FileMast == FileOf(<<1, ScanRows>>, [k \in 1..ScanRows |-> Red])

\* The name of the sprite at index k - 1: "a.png", "b.png", ...
SpriteName(k) == <<(<<"a", "b", "c", "d">>)[k]>> \o PNG

\* The images of a request: the files with their names.
Uploads(files, content_type) ==
    [k \in 1..Len(files) |->
        [name |-> SpriteName(k), content_type |-> content_type, file |-> files[k]]]

\* The shadowImages of a request: none, "a_shadow.png", or "a_shadow.png",
\* "a__shadow.png", "b_shadow.png", or "b_shadow.png", "a_shadow.png",
\* "a__shadow.png", "b__shadow.png".
ShadowLists ==
    { None,
      << <<"a", "_">> \o SHADOW \o PNG >>,
      << <<"a", "_">> \o SHADOW \o PNG,
         <<"a", "_", "_">> \o SHADOW \o PNG,
         <<"b", "_">> \o SHADOW \o PNG >>,
      << <<"b", "_">> \o SHADOW \o PNG,
         <<"a", "_">> \o SHADOW \o PNG,
         <<"a", "_", "_">> \o SHADOW \o PNG,
         <<"b", "_", "_">> \o SHADOW \o PNG >> }

\* The params of a request.
BaseParams ==
    [json |-> TRUE, tileSize |-> 1, width |-> MaxWidth, sample |-> 1, outline |-> 0,
     removeColor |-> None, shadowScale |-> 0, useShadowImages |-> FALSE,
     missingShadowPolicy |-> "skipShadow", useBackground |-> FALSE,
     previewMaxWidth |-> MaxWidth]

PlainParams ==
    {[BaseParams EXCEPT !.width = n] : n \in 1..MaxWidth}
    \cup {[BaseParams EXCEPT !.sample = n] : n \in 1..MaxSample}
    \cup {[BaseParams EXCEPT !.removeColor = c] :
             c \in {<<"#", "f", "f", "f", "f", "f", "f">>, <<"#", "z", "z">>}}
    \cup {[BaseParams EXCEPT !.outline = 1],
          [BaseParams EXCEPT !.shadowScale = 2],
          [BaseParams EXCEPT !.removeColor = <<"#", "f", "f", "f", "f", "f", "f">>,
                             !.outline = 1, !.shadowScale = 2],
          [BaseParams EXCEPT !.useBackground = TRUE],
          [BaseParams EXCEPT !.previewMaxWidth = 1],
          [BaseParams EXCEPT !.tileSize = 2]}

ShadowParams ==
    {[BaseParams EXCEPT !.useShadowImages = TRUE, !.missingShadowPolicy = p,
                        !.sample = n, !.shadowScale = k] :
        p \in {"skipShadow", "ignoreSprite", "fail"}, n \in 1..MaxSample, k \in {0, 2}}

InvalidParams ==
    {[BaseParams EXCEPT !.json = FALSE],
     [BaseParams EXCEPT !.tileSize = 0], [BaseParams EXCEPT !.tileSize = 513],
     [BaseParams EXCEPT !.width = 0], [BaseParams EXCEPT !.width = 21],
     [BaseParams EXCEPT !.sample = 0],
     [BaseParams EXCEPT !.outline = -1], [BaseParams EXCEPT !.outline = 51],
     [BaseParams EXCEPT !.shadowScale = -1], [BaseParams EXCEPT !.shadowScale = 6],
     [BaseParams EXCEPT !.missingShadowPolicy = "abort"]}

Request(params_json, images, shadow_names, background) ==
    [params_json |-> params_json, images |-> images,
     shadow_names |-> shadow_names, background |-> background]

RequestPool ==
    {Request(p, Uploads(files, ImagePng), None, p.useBackground) :
        p \in PlainParams, files \in SeqsOf(FilePool, 1, MaxSprites)}
    \cup {Request(p, Uploads(files, ImagePng), sh, FALSE) :
        p \in ShadowParams, files \in SeqsOf({FileRed, FileWhite}, 1, MaxSprites),
        sh \in ShadowLists}
    \cup {Request(p, Uploads(<<FileRed>>, ImagePng), None, FALSE) : p \in InvalidParams}
    \cup {Request([BaseParams EXCEPT !.width = n], Uploads(files, ImagePng), None, FALSE) :
        n \in 1..MaxWidth,
        files \in {<<FileRed, FileWhite, FileTower>>, <<FileMast, FileRed>>}}
    \cup {Request(BaseParams, Uploads(<<FileRed>>, TextPlain), None, FALSE),
          Request(BaseParams, Uploads(<<FileRed>>, ImagePng), None, TRUE)}

Init ==
    /\ call = NoCall
    /\ tile_map = {}
    /\ width = 1
    /\ placements = << >>
    /\ twin = IdleTwin
    /\ build \in {[IdleBuild EXCEPT !.alpha_only = a] : a \in BOOLEAN}
    /\ peer = IdleBuild

\* POST /v1/atlas/preview
PreviewAtlas ==
    /\ build.pc = "idle"
    /\ \E request \in RequestPool : build' = handler_begin(build, "preview", request)
    /\ UNCHANGED <<call, tile_map, width, placements, peer, twin>>

\* POST /v1/atlas/export
ExportAtlas ==
    /\ build.pc = "idle"
    /\ \E request \in RequestPool : build' = handler_begin(build, "export", request)
    /\ UNCHANGED <<call, tile_map, width, placements, peer, twin>>

\* One iteration of the loop of process_images.
SpriteStep ==
    /\ build.pc = "loop"
    /\ build.i < Len(build.request.images)
    /\ build' = process_images_step(build)
    /\ UNCHANGED <<call, tile_map, width, placements, peer, twin>>

\* The loop is over: the atlas and the answer.
Finish ==
    /\ build.pc = "loop"
    /\ build.i = Len(build.request.images)
    /\ build' = handler_end(build)
    /\ UNCHANGED <<call, tile_map, width, placements, peer, twin>>

Next == PreviewAtlas \/ ExportAtlas \/ SpriteStep \/ Finish

Spec == Init /\ [][Next]_vars

(***************************************************************************)
(* The API under two requests at the same time.                            *)
(***************************************************************************)

\* Bound of this specification: the sprites of each of the two requests.
MaxTwoSprites == 2

\* The report, the grid and the duplicate reference of one build were all
\* written by the other build.
written_by_other(own, other) ==
    [own EXCEPT !.report = other.report, !.tile_map = other.tile_map,
                !.last_image = other.last_image]

\* The state of one build after the other build took a step: report is an
\* attribute of the build's own AtlasProcessor, set in __init__; tile_map,
\* processed_images and last_image are locals of its process_images call.
unaffected_by(own, other) == own

TwoPool ==
    {Request(p, Uploads(files, ImagePng), None, FALSE) :
        p \in {BaseParams,
               [BaseParams EXCEPT !.removeColor = <<"#", "f", "f", "f", "f", "f", "f">>],
               [BaseParams EXCEPT !.sample = MaxSample]},
        files \in SeqsOf({FileRed, FileWhite}, 1, MaxTwoSprites)}
    \cup {Request([BaseParams EXCEPT !.useShadowImages = TRUE,
                                     !.missingShadowPolicy = "ignoreSprite"],
                  Uploads(files, ImagePng), << <<"a", "_">> \o SHADOW \o PNG >>, FALSE) :
        files \in SeqsOf({FileRed, FileWhite}, 1, MaxTwoSprites)}

InitTwo ==
    /\ call = NoCall
    /\ tile_map = {}
    /\ width = 1
    /\ placements = << >>
    /\ twin = IdleTwin
    /\ \E a \in BOOLEAN :
          /\ build = [IdleBuild EXCEPT !.alpha_only = a]
          /\ peer = [IdleBuild EXCEPT !.alpha_only = a]

\* The two requests: POST /v1/atlas/preview handled on build and
\* POST /v1/atlas/export handled on peer.
Handlers == {"build", "peer"}

\* The handler who goes on to the state advanced: its own record becomes
\* advanced, the record of the other handler is what that step leaves of it.
Advance(who, advanced) ==
    /\ build' = IF who = "build" THEN advanced ELSE unaffected_by(build, advanced)
    /\ peer' = IF who = "peer" THEN advanced ELSE unaffected_by(peer, advanced)
    /\ UNCHANGED <<call, tile_map, width, placements, twin>>

\* The record of the handler who.
Own(who) == IF who = "build" THEN build ELSE peer

\* One of the two handlers takes its request and enters process_images.
TwoBegin ==
    \E who \in Handlers, request \in TwoPool :
        /\ Own(who).pc = "idle"
        /\ Advance(who, handler_begin(Own(who),
                                      IF who = "build" THEN "preview" ELSE "export",
                                      request))

\* One of the two handlers runs one iteration of the loop of process_images.
TwoStep ==
    \E who \in Handlers :
        /\ Own(who).pc = "loop"
        /\ Own(who).i < Len(Own(who).request.images)
        /\ Advance(who, process_images_step(Own(who)))

\* One of the two handlers leaves the loop and answers.
TwoFinish ==
    \E who \in Handlers :
        /\ Own(who).pc = "loop"
        /\ Own(who).i = Len(Own(who).request.images)
        /\ Advance(who, handler_end(Own(who)))

NextTwo == TwoBegin \/ TwoStep \/ TwoFinish

SpecTwo == InitTwo /\ [][NextTwo]_vars

(***************************************************************************)
(* One AtlasProcessor whose process_images is called twice: build is the   *)
(* call that runs, peer the first call as it returned.                     *)
(***************************************************************************)

\* Bound of this specification: the sprites of a call.
MaxReuseSprites == 2

\* The params of the processor.
ReuseParams ==
    {validate_params(p) :
        p \in {BaseParams,
               [BaseParams EXCEPT !.useShadowImages = TRUE,
                                  !.missingShadowPolicy = "ignoreSprite"]}}

\* The arguments of a call: the images and the shadow names.
ReusePool ==
    {Request(BaseParams, Uploads(files, ImagePng), sh, FALSE) :
        files \in SeqsOf({FileRed, FileWhite, FileCorrupt}, 1, MaxReuseSprites),
        sh \in {None, << <<"a", "_">> \o SHADOW \o PNG >>}}

InitReuse ==
    /\ call = NoCall
    /\ tile_map = {}
    /\ width = 1
    /\ placements = << >>
    /\ twin = IdleTwin
    /\ build \in {[IdleBuild EXCEPT !.alpha_only = a] : a \in BOOLEAN}
    /\ peer = IdleBuild

\* processor = AtlasProcessor(params); processor.process_images(...), up to
\* the loop
ReuseFirst ==
    /\ build.pc = "idle"
    /\ \E params \in ReuseParams, request \in ReusePool :
          build' = process_images_begin([build EXCEPT !.request = request],
                                        params, EmptyReport)
    /\ UNCHANGED <<call, tile_map, width, placements, peer, twin>>

\* One iteration of the loop of process_images.
ReuseStep ==
    /\ build.pc = "loop"
    /\ build.i < Len(build.request.images)
    /\ build' = process_images_step(build)
    /\ UNCHANGED <<call, tile_map, width, placements, peer, twin>>

\* The loop is over: process_images returns or raises.
ReuseReturn ==
    /\ build.pc = "loop"
    /\ build.i = Len(build.request.images)
    /\ build' = [build EXCEPT !.pc = "done",
                              !.raised = process_images_end(build).raised,
                              !.atlas = process_images_end(build).atlas]
    /\ UNCHANGED <<call, tile_map, width, placements, peer, twin>>

\* processor.process_images(...) once more on the same processor, up to the
\* loop: self.params and self.report are those the first call left.
ReuseSecond ==
    /\ build.pc = "done"
    /\ peer.pc = "idle"
    /\ peer' = build
    /\ \E request \in ReusePool :
          build' = process_images_begin(
                       [build EXCEPT !.request = request, !.decoded = << >>,
                                     !.placed = << >>, !.raised = None, !.atlas = None],
                       build.params, build.report)
    /\ UNCHANGED <<call, tile_map, width, placements, twin>>

NextReuse == ReuseFirst \/ ReuseStep \/ ReuseReturn \/ ReuseSecond

SpecReuse == InitReuse /\ [][NextReuse]_vars

(***************************************************************************)
(* Claims about the tile map (SpecGrid).                                   *)
(***************************************************************************)

\* Two placements whose w x h rectangles share a cell.
Overlap(p, q) ==
    /\ p.x < q.x + q.w /\ q.x < p.x + p.w
    /\ p.y < q.y + q.h /\ q.y < p.y + p.h

\* Row r holds a cell of an accepted placement.
RowCovered(r) ==
    \E i \in 1..Len(placements) :
        placements[i].y <= r /\ r < placements[i].y + placements[i].h

\* C1: for any sequence of find_position calls on one tile map of width W,
\* each with 1 <= w <= W and h >= 1, the rectangles of any two returned
\* positions share no cell.
C1_NoOverlap ==
    \A i, j \in 1..Len(placements) :
        i < j => ~Overlap(placements[i], placements[j])

\* A second placement, two tiles wide, was accepted below a taller first one.
C1_Witness ==
    /\ call.fn = "find_position" /\ call.ret # None
    /\ Len(placements) = 2
    /\ placements[1].h > 1 /\ placements[2].w = 2
    /\ placements[2].y = placements[1].h

\* C3 (as claimed): map_height returns H such that no cell of row H is
\* covered by an accepted placement and every row below H holds a cell
\* covered by an accepted placement.
C3_HeightIsMinimal ==
    (call.fn = "map_height" /\ call.ret # None) =>
        /\ ~RowCovered(call.ret[1])
        /\ \A r \in 0..(call.ret[1] - 1) : RowCovered(r)

\* C4 (as claimed): find_position returns a position for every request
\* with w <= W, and map_height afterwards returns a row number.
C4_AlwaysPlaced ==
    /\ call.fn = "find_position" => call.ret # None
    /\ call.fn = "map_height" => call.ret # None

(***************************************************************************)
(* Claims about the shadow matcher (SpecMatch).                            *)
(***************************************************************************)

\* C6 (as claimed): normalize_filename is idempotent for every filename.
C6_Idempotent ==
    call.fn = "normalize_filename" => normalize_filename(call.ret) = call.ret

\* A filename with at most one extension: dropping its extension leaves a
\* name os.path.splitext finds no extension in.
OneExtension(filename) ==
    splitext_root(splitext_root(filename)) = splitext_root(filename)

\* C6 (amended): normalize_filename is idempotent on every filename with at
\* most one extension.
C6_IdempotentOneExtension ==
    (call.fn = "normalize_filename" /\ OneExtension(call.args[1]))
        => normalize_filename(call.ret) = call.ret

\* "B-.a" is normalized to "b_": its extension dropped, a letter lowered, a
\* dash replaced.
C6_Witness ==
    /\ call.fn = "normalize_filename"
    /\ call.args[1] = <<"B", "-", ".", "a">>
    /\ OneExtension(call.args[1])
    /\ call.ret = <<"b", "_">>

\* The entries of shadow_filenames whose normalized, suffix-stripped key is
\* the sprite's normalized name, in their order (an entry given twice counts
\* twice).
Candidates(sprite_filename, shadow_filenames) ==
    SelectSeq(shadow_filenames,
              LAMBDA f : strip_shadow_suffix(normalize_filename(f))
                             = normalize_filename(sprite_filename))

\* C7: process_shadow_matching classifies every sprite name by its
\* candidates C: none, the sprite is in missing and not in matches; one, the
\* sprite is matched to it and not in ambiguous; more, the sprite is in
\* ambiguous with all of C and in matches with the tie-break winner, an
\* element of C.
C7_Classification ==
    call.fn = "process_shadow_matching" =>
        \A i \in 1..Len(call.args[1]) :
            LET s == call.args[1][i]
                C == Candidates(s, call.args[2])
                r == call.ret
            IN  /\ Len(C) = 0 =>
                       s \in Range(r.missing) /\ s \notin DOMAIN r.matches
                /\ Len(C) = 1 =>
                       /\ s \in DOMAIN r.matches /\ r.matches[s] = C[1]
                       /\ s \notin DOMAIN r.ambiguous
                /\ Len(C) > 1 =>
                       /\ s \in DOMAIN r.ambiguous /\ r.ambiguous[s] = C
                       /\ s \in DOMAIN r.matches
                       /\ r.matches[s] \in Range(C)
                       /\ \A c \in Range(C) :
                              r.matches[s] = c \/ KeyLess(r.matches[s], c)

\* One call classifies a missing and an ambiguous sprite, the ambiguous one
\* with three candidates.
C7_Witness ==
    /\ call.fn = "process_shadow_matching"
    /\ Len(call.ret.missing) = 1
    /\ \E s \in DOMAIN call.ret.ambiguous : Len(call.ret.ambiguous[s]) = 3

\* The orderings of a sequence.
Orderings(seq) ==
    {[i \in 1..Len(seq) |-> seq[p[i]]] :
        p \in {q \in [1..Len(seq) -> 1..Len(seq)] :
                  \A i, j \in 1..Len(seq) : q[i] = q[j] => i = j}}

\* C8: resolve_ambiguous_shadow on a non-empty candidate list returns a
\* candidate of minimal length and, among those, the smallest filename in
\* code-point order; every ordering of the candidates gives the same result.
C8_ShortestThenSmallest ==
    (call.fn = "resolve_ambiguous_shadow" /\ call.args[1] # << >>) =>
        LET candidates == call.args[1]
            r == call.ret
        IN  /\ r \in Range(candidates)
            /\ \A c \in Range(candidates) :
                   /\ Len(r) <= Len(c)
                   /\ Len(c) = Len(r) => (r = c \/ StrLess(r, c))
            /\ \A o \in Orderings(candidates) : resolve_ambiguous_shadow(o) = r

\* Three candidates, two of the minimal length, the winner given last.
C8_Witness ==
    /\ call.fn = "resolve_ambiguous_shadow"
    /\ Len(call.args[1]) = 3
    /\ call.ret = call.args[1][3]
    /\ Len(call.args[1][2]) = Len(call.ret) /\ call.args[1][2] # call.ret
    /\ Len(call.args[1][1]) > Len(call.ret)


(***************************************************************************)
(* Claims about the API (Spec).                                            *)
(***************************************************************************)

\* process_images was entered for the request.
Started == build.pc \in {"loop", "done"} /\ build.params # None

\* The sprite at position k of the request passes the sample filter.
SampledIn(k) == ~(build.params.sample > 1 /\ (k - 1) % build.params.sample # 0)

\* report["ignored"] has an entry for name with the reason kind.
IgnoredAs(name, kind) ==
    \E j \in 1..Len(build.report.ignored) :
        build.report.ignored[j].name = name /\ build.report.ignored[j].reason.kind = kind

\* The sprite called name was given a position.
IsPlaced(name) == \E j \in 1..Len(build.placed) : build.placed[j].name = name

\* The sprite at position k was handled by the loop, decoded, and reached
\* the shadow policy: it is sampled in and no duplicate.
ReachedShadowPolicy(k) ==
    /\ k <= build.i
    /\ SampledIn(k)
    /\ build.request.images[k].file.ok
    /\ ~IgnoredAs(build.request.images[k].name, "duplicate")

\* C2: with shadow-image mode on and missing_shadow_policy = "fail", when a
\* sampled-in, decoded, non-duplicate sprite has no resolved shadow, the
\* request ends with an error of process_images and without an atlas.
C2_FailAbortsBuild ==
    ( /\ Started /\ build.pc = "done"
      /\ build.params.use_shadow_images
      /\ build.params.missing_shadow_policy = "fail"
      /\ \E k \in 1..Len(build.request.images) :
            /\ ReachedShadowPolicy(k)
            /\ build.request.images[k].name \notin DOMAIN build.shadow_matches )
    => (build.raised # None /\ build.atlas = None)

\* C5: a request whose params validate_params rejects is answered with
\* status 400, and process_images is not entered for it.
C5_InvalidParamsAnswered400 ==
    ( /\ build.pc = "done"
      /\ validate_params_raises(build.request.params_json) # None )
    => (build.status = 400 /\ build.params = None /\ build.i = 0)

\* C9: when two consecutive sampled-in, decoded sprites have identical
\* pixels, the second is in ignored with reason "duplicate" and is not
\* placed, whatever the configuration.
C9_DuplicateIgnored ==
    Started =>
        \A k \in 2..Len(build.decoded) :
            build.decoded[k].img = build.decoded[k - 1].img
            => ( /\ IgnoredAs(build.decoded[k].name, "duplicate")
                 /\ ~IsPlaced(build.decoded[k].name) )

\* C10: a sprite that reaches process_sprite and whose source image is more
\* tiles wide than the width of the atlas is in ignored with reason
\* "too wide" and is not placed.
C10_TooWideIgnored ==
    Started =>
        \A k \in 1..build.i :
            ( /\ ReachedShadowPolicy(k)
              /\ ~IgnoredAs(build.request.images[k].name, "missing shadow")
              /\ build.request.images[k].file.img.size[1]
                     > build.params.tile_size * build.params.width )
            => ( /\ IgnoredAs(build.request.images[k].name, "too wide")
                 /\ ~IsPlaced(build.request.images[k].name) )

HasIgnoredEntry(name) ==
    \E j \in 1..Len(build.report.ignored) : build.report.ignored[j].name = name

C13_SampledOutInvisible ==
    Started =>
        \A k \in 1..Len(build.request.images) :
            ~SampledIn(k)
            => LET name == build.request.images[k].name
               IN  /\ \A j \in 1..Len(build.decoded) : build.decoded[j].name # name
                   /\ ~IsPlaced(name)
                   /\ ~HasIgnoredEntry(name)
                   /\ \A j \in 1..Len(build.report.shadowMissing) :
                         build.report.shadowMissing[j] # name
                   /\ \A j \in 1..Len(build.report.shadowAmbiguous) :
                         build.report.shadowAmbiguous[j].sprite # name

\* C14: when process_images returns an atlas, it is tile_size * width pixels
\* wide and tile_size * H pixels tall, H the result of map_height, and every
\* placement lies inside it: x + w <= width and y + h <= H.
C14_PlacementsInsideAtlas ==
    (Started /\ build.pc = "done" /\ build.atlas # None)
    => LET H == map_height(build.tile_map, build.params.width)
       IN  /\ H # None
           /\ build.atlas.size = <<build.params.tile_size * build.params.width,
                                   build.params.tile_size * H[1]>>
           /\ \A j \in 1..Len(build.placed) :
                 /\ build.placed[j].loc # None
                 /\ build.placed[j].loc[1] + build.placed[j].w <= build.params.width
                 /\ build.placed[j].loc[2] + build.placed[j].h <= H[1]

\* An atlas whose last rows hold a sprite of two tiles' height or more that
\* starts below the first row, next to a shorter column.
C14_Witness ==
    /\ Started /\ build.pc = "done" /\ build.atlas # None
    /\ build.params.width >= 2
    /\ \E j \in 1..Len(build.placed) :
          /\ build.placed[j].h >= 2
          /\ build.placed[j].loc[1] >= 1
          /\ build.params.tile_size * (build.placed[j].loc[2] + build.placed[j].h)
                 = build.atlas.size[2]

(***************************************************************************)
(* Claims about strip_shadow_suffix (SpecMatch).                           *)
(***************************************************************************)

\* The markers in the order the claim lists them: "__shadow", "_shadow",
\* "-shadow", "(shadow)", "shadow".
Markers ==
    << <<"_", "_", "s", "h", "a", "d", "o", "w">>,
       <<"_", "s", "h", "a", "d", "o", "w">>,
       <<"-", "s", "h", "a", "d", "o", "w">>,
       <<"(", "s", "h", "a", "d", "o", "w", ")">>,
       <<"s", "h", "a", "d", "o", "w">> >>

\* s is r followed by t.
SplitsInto(s, r, t) == s = r \o t

\* s ends with t.
HasSuffix(s, t) ==
    Len(t) <= Len(s) /\ SubSeq(s, Len(s) - Len(t) + 1, Len(s)) = t

\* C15: strip_shadow_suffix returns the name without the first marker of
\* the list that the name ends with, and nothing more; a name that ends
\* with no marker is returned unchanged.
C15_StripsFirstMarkerOnce ==
    call.fn = "strip_shadow_suffix"
    => LET filename == call.args[1]
           first == {k \in 1..Len(Markers) :
                        /\ HasSuffix(filename, Markers[k])
                        /\ \A j \in 1..(k - 1) : ~HasSuffix(filename, Markers[j])}
       IN  IF first = {} THEN call.ret = filename
           ELSE \A k \in first : SplitsInto(filename, call.ret, Markers[k])

\* "a_shadow__shadow" loses "__shadow" only: the result "a_shadow" still
\* ends with a marker.
C15_Witness ==
    /\ call.fn = "strip_shadow_suffix"
    /\ call.args[1] = <<"a">> \o Markers[2] \o Markers[1]
    /\ call.ret = <<"a">> \o Markers[2]
    /\ \E k \in 1..Len(Markers) : HasSuffix(call.ret, Markers[k])

(***************************************************************************)
(* Claims about two builds at the same time (SpecTwo).                     *)
(***************************************************************************)

\* The build b alone, from its request to index i of its loop.
RECURSIVE RunTo(_, _)
RunTo(b, i) ==
    IF b.pc # "loop" \/ b.i >= i THEN b ELSE RunTo(process_images_step(b), i)

\* The state the build b is in when its request is handled alone and has
\* come as far as b.
Alone(b) ==
    LET start == handler_begin([IdleBuild EXCEPT !.alpha_only = b.alpha_only],
                               b.endpoint, b.request)
        last == RunTo(start, Len(b.request.images))
    IN  IF b.pc = "loop" THEN RunTo(start, b.i)
        ELSE IF last.pc = "loop" THEN handler_end(last) ELSE last

Covered(ps) ==
    UNION {{<<ps[i].x + dx, ps[i].y + dy>> : dx \in 0..(ps[i].w - 1),
                                               dy \in 0..(ps[i].h - 1)} :
           i \in 1..Len(ps)}

\* The placements of a tile map before its last call c.
PlacementsBefore(c, ps) ==
    IF c.ret = None THEN ps ELSE SubSeq(ps, 1, Len(ps) - 1)

\* The last calls on the two tile maps asked for the same (w, h) when the
\* same cells were covered.
SameCallOnSameCells ==
    /\ call.fn = "find_position" /\ twin.call.fn = "find_position"
    /\ call.args[3] = twin.call.args[3]
    /\ call.args[4] = twin.call.args[4]
    /\ Covered(PlacementsBefore(call, placements))
           = Covered(PlacementsBefore(twin.call, twin.placements))

\* C17: two find_position calls with the same width and (w, h) on tile maps
\* with the same occupied cells return the same position and leave the same
\* cells occupied.
C17_Deterministic ==
    SameCallOnSameCells
    => /\ call.ret = twin.call.ret
       /\ Covered(placements) = Covered(twin.placements)
       /\ tile_map = twin.tile_map

\* The same call on tile maps that got the same cells covered by different
\* sequences of calls.
C17_Witness ==
    /\ SameCallOnSameCells
    /\ Len(placements) # Len(twin.placements)
    /\ Len(placements) >= 2 /\ Len(twin.placements) >= 2
    /\ call.ret # None

(***************************************************************************)
(* Further claims about the API (Spec).                                    *)
(***************************************************************************)

\* The position in the input of the sprite called name.
InputIndex(name) ==
    CHOOSE k \in 1..Len(build.request.images) : build.request.images[k].name = name

\* The names are in the order of the input, none twice.
InInputOrder(names) ==
    \A j1, j2 \in 1..Len(names) : j1 < j2 => InputIndex(names[j1]) < InputIndex(names[j2])

\* C18: the entries of ignored, the names of shadowMissing and the entries
\* of shadowAmbiguous are each in the order of the input.
C18_ReportInInputOrder ==
    Started =>
        /\ InInputOrder([j \in 1..Len(build.report.ignored) |-> build.report.ignored[j].name])
        /\ InInputOrder(build.report.shadowMissing)
        /\ InInputOrder([j \in 1..Len(build.report.shadowAmbiguous) |->
                            build.report.shadowAmbiguous[j].sprite])

\* A report with two ambiguous sprites, a missing shadow and two ignored
\* sprites.
C18_Witness ==
    /\ Started /\ build.pc = "done"
    /\ Len(build.report.shadowAmbiguous) >= 2
    /\ Len(build.report.shadowMissing) >= 1
    /\ Len(build.report.ignored) >= 2

\* C19: create_preview returns the atlas unchanged when its width is at most
\* preview_max_width; otherwise the image it returns is preview_max_width
\* wide and its height is the atlas height times preview_max_width / atlas
\* width, rounded down.
C19_PreviewHeightRoundedDown ==
    (call # NoCall /\ call.fn = "create_preview" /\ call.raised = None) =>
        LET cap == call.args[1].preview_max_width
            atlas == call.args[2]
        IN  IF atlas.size[1] <= cap
            THEN call.ret = atlas
            ELSE call.ret.size = <<cap, (atlas.size[2] * cap) \div atlas.size[1]>>

\* The first half of C19: an atlas no wider than the cap is returned as it is.
C19_NarrowUnchanged ==
    (call # NoCall /\ call.fn = "create_preview"
        /\ call.args[2].size[1] <= call.args[1].preview_max_width) =>
        call.raised = None /\ call.ret = call.args[2]

\* The width of C19: a wider atlas is returned preview_max_width wide, and
\* its height is the rounded-down height or one less.
C19_HeightWithinOne ==
    (call # NoCall /\ call.fn = "create_preview" /\ call.raised = None
        /\ call.args[2].size[1] > call.args[1].preview_max_width) =>
        LET cap == call.args[1].preview_max_width
            atlas == call.args[2]
            floor == (atlas.size[2] * cap) \div atlas.size[1]
        IN  /\ call.ret.size[1] = cap
            /\ call.ret.size[2] \in {floor, floor - 1}
            /\ call.ret.size[2] = floor - 1 => (atlas.size[2] * cap) % atlas.size[1] = 0

\* The answered request failed in validate_params or validate_files: a
\* client-input failure.
ClientInputFailure ==
    /\ build.pc = "done"
    /\ \/ validate_params_raises(build.request.params_json) # None
       \/ validate_files_raises(build.request.images) # None

\* The answered request failed with the build-fatal error of process_images.
BuildFatal ==
    /\ build.pc = "done" /\ Started
    /\ build.raised # None
    /\ build.raised = process_images_end(build).raised
    /\ build.raised.type = "ValueError"

\* C20: a request that fails with a build-fatal error of process_images is
\* answered with status 400, a request that fails in any other way is
\* answered with status 500, and a request that fails on the client's input
\* is never answered with status 500.
C20_ErrorKindsDistinct ==
    (build.pc = "done" /\ build.raised # None) =>
        /\ build.status = IF BuildFatal THEN 400 ELSE 500
        /\ ClientInputFailure => build.status # 500

\* The part of C20 that holds: a build-fatal error is answered with 400.
C20_BuildFatalAnswered400 == BuildFatal => build.status = 400

\* The part of C20 about the client's input alone.
C20_ClientInputNever500 == ClientInputFailure => build.status # 500

\* The part of C20 about the failures past the validation that are not
\* build-fatal.
C20_OtherFailureAnswered500 ==
    (build.pc = "done" /\ build.raised # None /\ ~BuildFatal /\ ~ClientInputFailure)
        => build.status = 500

\* A request answered 400 for a build-fatal error exists.
C20_FatalReached == BuildFatal /\ build.status = 400

(***************************************************************************)
(* Further claims about the tile map (SpecGrid).                           *)
(***************************************************************************)

\* The w x h footprint at (x, y) lies within the width and shares no cell
\* with the placements ps.
ReallyFree(ps, x, y, w, h) ==
    /\ x + w <= width
    /\ \A i \in 1..Len(ps) : ~Overlap([x |-> x, y |-> y, w |-> w, h |-> h], ps[i])

\* (x1, y1) comes before (x2, y2) in row-major order.
RowMajorBefore(x1, y1, x2, y2) == y1 < y2 \/ (y1 = y2 /\ x1 < x2)

\* C21: the position find_position returns is the first one in row-major
\* order (y upward from 0, x upward from 0 within a row) that fits in the
\* width and whose footprint holds no cell of an earlier placement.
C21_FirstFit ==
    (call.fn = "find_position" /\ call.ret # None) =>
        LET ps == PlacementsBefore(call, placements)
            w == call.args[2]
            h == call.args[3]
        IN  /\ ReallyFree(ps, call.ret[1], call.ret[2], w, h)
            /\ \A y \in 0..call.ret[2], x \in 0..(width - 1) :
                   RowMajorBefore(x, y, call.ret[1], call.ret[2])
                   => ~ReallyFree(ps, x, y, w, h)

\* The part of C21 that holds: the returned footprint is really free, and
\* it is the first one as long as no footprint reaches row KeyStride.
C21_FirstFitBelowStride ==
    (call.fn = "find_position" /\ call.ret # None) =>
        LET ps == PlacementsBefore(call, placements)
            w == call.args[2]
            h == call.args[3]
        IN  /\ ReallyFree(ps, call.ret[1], call.ret[2], w, h)
            /\ ( /\ call.ret[2] + h <= KeyStride
                 /\ \A i \in 1..Len(ps) : ps[i].y + ps[i].h <= KeyStride )
               => \A y \in 0..call.ret[2], x \in 0..(width - 1) :
                      RowMajorBefore(x, y, call.ret[1], call.ret[2])
                      => ~ReallyFree(ps, x, y, w, h)

\* The rows whose cells the claims about one call look at: those the scan
\* of find_position can reach with a footprint.
GridRows == 0..(2 * ScanRows)

\* The step is a find_position call that returned a position.
Placed == /\ call'.fn = "find_position" /\ call'.ret # None
          /\ Len(placements') = Len(placements) + 1

\* Cell (x, y) lies in the footprint of the placement p.
InFootprint(p, x, y) ==
    /\ p.x <= x /\ x < p.x + p.w
    /\ p.y <= y /\ y < p.y + p.h

\* C22: a find_position call that returns a position marks exactly the
\* cells of its footprint: every cell outside the footprint reads the same
\* through check_if_took before and after the call, and no cell occupied
\* before the call is free after it.
C22_MarksExactlyFootprint ==
    [][ Placed =>
          LET p == placements'[Len(placements')]
          IN  \A x \in 0..(width - 1), y \in GridRows :
                  /\ ~InFootprint(p, x, y)
                     => (check_if_took(tile_map', x, y) = check_if_took(tile_map, x, y))
                  /\ check_if_took(tile_map, x, y) => check_if_took(tile_map', x, y)
      ]_vars

\* The parts of C22 that hold: every cell of the footprint is occupied after
\* the call, no occupied cell becomes free, and below row KeyStride the
\* cells outside the footprint read as before.
C22_MarksFootprintBelowStride ==
    [][ Placed =>
          LET p == placements'[Len(placements')]
          IN  \A x \in 0..(width - 1), y \in GridRows :
                  /\ InFootprint(p, x, y) => check_if_took(tile_map', x, y)
                  /\ check_if_took(tile_map, x, y) => check_if_took(tile_map', x, y)
                  /\ (~InFootprint(p, x, y) /\ y < KeyStride /\ p.y + p.h <= KeyStride)
                     => (check_if_took(tile_map', x, y) = check_if_took(tile_map, x, y))
      ]_vars

(***************************************************************************)
(* Claims about the transforms of a sprite (Spec).                         *)
(***************************************************************************)

\* The transforms applied to the image pasted for the sprite called name, in
\* the order they were applied; << >> when the sprite is not placed.
OpsOf(name) ==
    IF IsPlaced(name)
    THEN LET j == CHOOSE j \in 1..Len(build.placed) : build.placed[j].name = name
         IN  build.processed_images[build.placed[j].loc].ops
    ELSE << >>

\* The transform op was applied to the sprite called name.
Applied(name, op) == \E n \in 1..Len(OpsOf(name)) : OpsOf(name)[n] = op

\* The sprite at position k reached the shadow policy of a build with
\* shadow images on and the policy skipShadow, and has no resolved shadow.
SkippedShadow(k) ==
    /\ Started
    /\ build.params.use_shadow_images
    /\ build.params.missing_shadow_policy = "skipShadow"
    /\ ReachedShadowPolicy(k)
    /\ build.request.images[k].name \notin DOMAIN build.shadow_matches

\* C23: with shadow images on and the policy skipShadow, a sprite without a
\* resolved shadow is placed and no shadow is applied to it, neither from a
\* shadow image nor by scale, whatever shadow_scale is.
C23_SkipShadowAppliesNone ==
    Started => \A k \in 1..Len(build.request.images) :
        SkippedShadow(k) =>
            /\ IsPlaced(build.request.images[k].name)
            /\ ~Applied(build.request.images[k].name, "add_shadow_file")
            /\ ~Applied(build.request.images[k].name, "add_shadow_scale")

\* The part of C23 that holds: the sprite is placed without a shadow from a
\* shadow image, and without any shadow when shadow_scale is 0.
C23_SkipShadowNoShadowFile ==
    Started => \A k \in 1..Len(build.request.images) :
        SkippedShadow(k) =>
            /\ IsPlaced(build.request.images[k].name)
            /\ ~Applied(build.request.images[k].name, "add_shadow_file")
            /\ build.params.shadow_scale = 0
               => ~Applied(build.request.images[k].name, "add_shadow_scale")

\* The place of a transform in the order colour-key removal, soft outline,
\* shadow, tile-size resize; the background is pasted after process_sprite.
Rank(op) ==
    CASE op = "make_transparent" -> 1
      [] op = "add_soft_outline" -> 2
      [] op = "add_shadow_file" -> 3
      [] op = "add_shadow_scale" -> 3
      [] op = "resize" -> 4
      [] OTHER -> 5

\* C24: the transforms of every processed sprite run in the order colour-key
\* removal, soft outline, shadow, tile-size resize, each at most once, and
\* the image-based and the scale-based shadow are never both applied.
C24_TransformOrder ==
    Started =>
        \A j \in 1..Len(build.placed) :
            LET ops == OpsOf(build.placed[j].name)
            IN  /\ \A m, n \in 1..Len(ops) : m < n => Rank(ops[m]) < Rank(ops[n])
                /\ ~( Applied(build.placed[j].name, "add_shadow_file")
                      /\ Applied(build.placed[j].name, "add_shadow_scale") )
                /\ Applied(build.placed[j].name, "resize")

\* A sprite went through colour-key removal, outline, scale-based shadow
\* and resize.
C24_Witness ==
    /\ Started /\ build.pc = "done" /\ build.status = 200
    /\ \E j \in 1..Len(build.placed) :
          OpsOf(build.placed[j].name)
              = <<"make_transparent", "add_soft_outline", "add_shadow_scale", "resize">>

\* A sprite with a resolved shadow image got the image-based shadow in a
\* build whose shadow_scale is positive.
C24_ShadowFileWithScale ==
    /\ Started /\ build.pc = "done" /\ build.status = 200
    /\ build.params.shadow_scale > 0
    /\ \E j \in 1..Len(build.placed) : Applied(build.placed[j].name, "add_shadow_file")

\* The image the sprite called name was decoded to.
SourceOf(name) ==
    LET k == CHOOSE k \in 1..Len(build.decoded) : build.decoded[k].name = name
    IN  build.decoded[k].img

\* C25: no sprite is recorded in ignored with reason "size alignment": the
\* image of every sprite that passes process_sprite is tile_size wide and
\* tile_size times its multiplier tall, whatever the size of its source.
C25_NeverMisaligned ==
    Started =>
        /\ \A k \in 1..Len(build.request.images) :
               ~IgnoredAs(build.request.images[k].name, "size alignment")
        /\ \A j \in 1..Len(build.placed) :
               LET name == build.placed[j].name
                   src == SourceOf(name).size
                   out == build.processed_images[build.placed[j].loc].size
               IN  out = <<build.params.tile_size,
                           build.params.tile_size * round_half_up(src[2], src[1])>>

\* A sprite whose source is 3 x 2 pixels, neither a multiple of the tile
\* size 2 in width nor square, was placed.
C25_Witness ==
    /\ Started /\ build.pc = "done"
    /\ build.params.tile_size = 2
    /\ \E j \in 1..Len(build.placed) :
          /\ SourceOf(build.placed[j].name).size = <<3, 2>>
          /\ build.processed_images[build.placed[j].loc].size = <<2, 2>>

(***************************************************************************)
(* Claims about the duplicate reference (Spec).                            *)
(***************************************************************************)

\* The sprites handled so far that were sampled in, decoded, and not
\* reported as duplicates.
KeptSoFar ==
    {k \in 1..build.i :
        /\ SampledIn(k)
        /\ build.request.images[k].file.ok
        /\ ~IgnoredAs(build.request.images[k].name, "duplicate")}

\* img is the image of the sprite at position k: its pixels as decoded, or,
\* when the build removes a colour, as make_transparent wrote them in place.
IsImageOf(img, k) ==
    LET src == build.request.images[k].file.img
    IN  \/ img = src
        \/ /\ build.params.remove_color # None
           /\ parse_remove_color(build.params.remove_color) # None
           /\ img = make_transparent(src, parse_remove_color(build.params.remove_color))

C26_DuplicateOfReferenceOnly ==
    [][ (Started /\ build.pc = "loop" /\ build'.pc = "loop" /\ build'.i = build.i + 1
            /\ SampledIn(build'.i) /\ build.request.images[build'.i].file.ok)
        => ( ( \E j \in 1..Len(build'.report.ignored) :
                   /\ build'.report.ignored[j].name = build.request.images[build'.i].name
                   /\ build'.report.ignored[j].reason.kind = "duplicate" )
             <=> ( /\ build.last_image # None
                   /\ image_equal(build.last_image,
                                  build.request.images[build'.i].file.img,
                                  build.alpha_only) ) )
      ]_vars

C26_IgnoredIsReference ==
    /\ Started /\ build.pc = "loop" /\ build.i = 2
    /\ IgnoredAs(build.request.images[1].name, "missing shadow")
    /\ IgnoredAs(build.request.images[2].name, "duplicate")

\* A sprite that failed to decode stands between a sprite and its duplicate.
C26_CorruptBetween ==
    /\ Started /\ build.pc = "loop" /\ build.i = 3
    /\ ~build.request.images[2].file.ok
    /\ IgnoredAs(build.request.images[3].name, "duplicate")

(***************************************************************************)
(* Claims about a processor used twice (SpecReuse).                        *)
(***************************************************************************)

\* The second call of process_images on the processor is running or over.
SecondCall == peer.pc = "done" /\ build.pc \in {"loop", "done"}

\* The state of the call b had it been made on a new processor, as far as b
\* has come.
OnNewProcessor(b) ==
    RunTo(process_images_begin([IdleBuild EXCEPT !.alpha_only = b.alpha_only,
                                                 !.request = b.request],
                               b.params, EmptyReport),
          b.i)

\* C27: no state crosses from one call of process_images to the next on the
\* same AtlasProcessor: the second call starts with an empty grid and no
\* duplicate reference, and its report holds only what the second call
\* found.
C27_NoCrossBuildState ==
    SecondCall =>
        /\ build.i = 0 => (build.tile_map = {} /\ build.last_image = None)
        /\ build.report = OnNewProcessor(build).report

\* The part of C27 that holds: the locals of process_images (grid, pasted
\* images, duplicate reference) are those of a new processor.
C27_LocalsFresh ==
    SecondCall =>
        /\ build.i = 0 => (build.tile_map = {} /\ build.last_image = None
                           /\ DOMAIN build.processed_images = {})
        /\ build.tile_map = OnNewProcessor(build).tile_map
        /\ build.last_image = OnNewProcessor(build).last_image
        /\ build.processed_images = OnNewProcessor(build).processed_images
        /\ build.placed = OnNewProcessor(build).placed

\* A second call was made after a first one that ignored a sprite.
C27_SecondAfterIgnored ==
    SecondCall /\ build.pc = "done" /\ Len(peer.report.ignored) > 0

(***************************************************************************)
(* Claims about the outcome of every sprite (Spec).                        *)
(***************************************************************************)

\* The entries of placed, and of ignored, for the sprite called name.
PlacedEntries(name) == {j \in 1..Len(build.placed) : build.placed[j].name = name}

IgnoredEntries(name) ==
    {j \in 1..Len(build.report.ignored) : build.report.ignored[j].name = name}

\* The build returned an atlas.
Succeeded == Started /\ build.pc = "done" /\ build.atlas # None

\* C28: in a build that returns an atlas every sampled-in sprite is either
\* placed, once, at a position no other sprite is recorded at, or has one
\* entry in ignored, never both and never neither; a sampled-out sprite has
\* neither; and the pasted images and the ignored entries together are as
\* many as the sampled-in sprites.
C28_ExactlyOneOutcome ==
    Succeeded =>
        /\ \A k \in 1..Len(build.request.images) :
              LET name == build.request.images[k].name
                  np == Cardinality(PlacedEntries(name))
                  ni == Cardinality(IgnoredEntries(name))
              IN  IF SampledIn(k) THEN np + ni = 1 ELSE np + ni = 0
        /\ \A j1, j2 \in 1..Len(build.placed) :
              /\ build.placed[j1].loc # None
              /\ j1 # j2 => build.placed[j1].loc # build.placed[j2].loc
        /\ Cardinality(DOMAIN build.processed_images) + Len(build.report.ignored)
              = Cardinality({k \in 1..Len(build.request.images) : SampledIn(k)})

\* A build of the largest request returned an atlas with a sprite placed
\* and a sprite ignored.
C28_Witness ==
    /\ Succeeded
    /\ Len(build.request.images) = MaxSprites
    /\ Len(build.placed) >= 1
    /\ Len(build.report.ignored) >= 1

(***************************************************************************)
(* Claims about the placement requests of a build (Spec).                  *)
(***************************************************************************)

\* C29: every request process_images sends to find_position, recorded with
\* its answer in placed, is one tile wide and at least one tile tall.
C29_OneTileWide ==
    Started =>
        \A j \in 1..Len(build.placed) :
            build.placed[j].w = 1 /\ build.placed[j].h >= 1

\* C29, as a step: a step that places a sprite sends a request of w = 1 and
\* h >= 1, and the sprite's image is tile_size wide.
C29_RequestsOneTileWide ==
    [][(Started /\ Len(build'.placed) = Len(build.placed) + 1) =>
          LET p == build'.placed[Len(build'.placed)]
          IN  /\ p.w = 1 /\ p.h >= 1
              /\ build'.processed_images[p.loc].size
                    = <<build.params.tile_size, build.params.tile_size * p.h>>]_vars

\* A sprite whose source is three pixels wide and one whose source is
\* twice as tall as wide are both placed; a sprite three times as wide as
\* tall was refused by the resize.
C29_Witness ==
    /\ Started
    /\ \E j \in 1..Len(build.placed), k \in 1..Len(build.request.images) :
          /\ build.request.images[k].name = build.placed[j].name
          /\ build.request.images[k].file = FileBlock
          /\ build.placed[j].h = 1
    /\ \E j \in 1..Len(build.placed), k \in 1..Len(build.request.images) :
          /\ build.request.images[k].name = build.placed[j].name
          /\ build.request.images[k].file = FileTall
          /\ build.placed[j].h = 2

\* A sprite three times as wide as tall is refused: its multiplier is 0.
C29_WideRefused ==
    /\ Started
    /\ \E k \in 1..Len(build.request.images) :
          /\ build.request.images[k].file = FileWide
          /\ IgnoredEntries(build.request.images[k].name) # {}
          /\ PlacedEntries(build.request.images[k].name) = {}

(***************************************************************************)
(* Claims about the report's shadowMissing (Spec).                         *)
(***************************************************************************)

\* With shadow images on, the sprite at position k reached the shadow
\* policy and has no resolved shadow: its shadow is skipped, or it is
\* ignored as "missing shadow", or it raises "Missing shadow for".
Unresolved(k) ==
    /\ build.params.use_shadow_images
    /\ ReachedShadowPolicy(k)
    /\ build.request.images[k].name \notin DOMAIN build.shadow_matches

InShadowMissing(name) ==
    \E j \in 1..Len(build.report.shadowMissing) : build.report.shadowMissing[j] = name

\* The request came with no shadow files.
NoShadowFiles ==
    build.request.shadow_names = None \/ build.request.shadow_names = << >>

\* C30: with shadow images on, every sprite the build handles without a
\* resolved shadow is listed in the report's shadowMissing, also when the
\* request supplies no shadow files.
C30_UnresolvedListed ==
    Started => \A k \in 1..Len(build.request.images) :
        Unresolved(k) => InShadowMissing(build.request.images[k].name)

\* The part of C30 that holds: when the request supplies shadow files,
\* every sprite handled without a resolved shadow is in shadowMissing.
C30_UnresolvedListedWithFiles ==
    Started => \A k \in 1..Len(build.request.images) :
        (Unresolved(k) /\ ~NoShadowFiles)
            => InShadowMissing(build.request.images[k].name)

\* Without shadow files shadowMissing stays empty, whatever is handled.
C30_NoFilesNothingListed ==
    (Started /\ build.params.use_shadow_images /\ NoShadowFiles)
        => build.report.shadowMissing = << >>

\* A sprite was handled without a resolved shadow in a request that came
\* with shadow files, and one in a request that came with none.
C30_UnresolvedWithFiles ==
    Started /\ ~NoShadowFiles
        /\ \E k \in 1..Len(build.request.images) : Unresolved(k)

C30_UnresolvedWithoutFiles ==
    Started /\ NoShadowFiles /\ build.pc = "done"
        /\ \E k \in 1..Len(build.request.images) :
              Unresolved(k) /\ IgnoredAs(build.request.images[k].name, "missing shadow")

====
